---------------------------- MODULE Spec2Model ----------------------------
(***************************************************************************)
(* Stimulus sequencing of the imitation experiment.                        *)
(*                                                                         *)
(*   path_stimuli.py            positional attribute extraction, grouping, *)
(*                              rearrange, create_randomized_stimuli,      *)
(*                              load_or_generate_stimuli                   *)
(*   path_and_randomization.py  name-coordination blocks, the CSV file     *)
(*                                                                         *)
(* A filename is a TLA+ string; it is taken apart character by character   *)
(* with Len and SubSeq, the way str.split, slicing, startswith and         *)
(* endswith take it apart.                                                 *)
(***************************************************************************)
EXTENDS Integers, Sequences, FiniteSets, TLC

VARIABLES
    frame,      \* the local variables and position of one call of rearrange
    directory,  \* the filenames in the stimulus directory (stim_path)
    randomized_stimuli_pkl,  \* random_path/randomized_stimuli.pkl
    randomized_stimuli_csv,  \* random_path/randomized_stimuli.csv
    rng,        \* the random module's generator: its seed, the requests since
    mt666,      \* what the generator seeded with 666 answers, as far as seen
    create,     \* the locals and position of create_randomized_stimuli
    load,       \* the locals and position of load_or_generate_stimuli
    first_run,  \* the first finished direct call of create_randomized_stimuli
    changes,    \* how often the stimulus directory has been changed
    name_coordinations,  \* path_and_randomization's module-level list
    randomize,  \* the locals and position of load_and_randomize
    randomized_imitation_stimuli_csv,  \* the participant's CSV file
    extract,    \* one filename and what the extraction functions make of it
    exists,     \* the directories of the configuration that exist
    check,      \* the locals and position of check_and_create_config_paths
    script,     \* the position of imitation_experiment.py
    phase       \* the locals and position of conduct_experiment_phase

rearrangeVars == <<frame>>
fileVars == <<directory, randomized_stimuli_pkl, randomized_stimuli_csv, changes>>
rngVars == <<rng, mt666>>
vars == <<frame, directory, randomized_stimuli_pkl, randomized_stimuli_csv,
          rng, mt666, create, load, first_run, changes,
          name_coordinations, randomize, randomized_imitation_stimuli_csv,
          extract, exists, check, script, phase>>
\* the state of the experiment script and of a lone call of an extraction
restVars == <<extract, exists, check, script, phase>>
randomizeVars == <<name_coordinations, randomize, randomized_imitation_stimuli_csv>>

\* what a call of rearrange on its own leaves alone
notRearrangeVars == <<fileVars, rngVars, create, load, first_run, randomizeVars, restVars>>
\* what the calls into path_stimuli.py other than rearrange's own leave alone
elsewhereVars == <<frame, randomizeVars, restVars>>
\* what create_randomized_stimuli leaves alone
notCreateVars == <<elsewhereVars, fileVars, load, first_run>>
\* what load_or_generate_stimuli leaves alone, its callee apart
notLoadVars == <<elsewhereVars, first_run>>

-----------------------------------------------------------------------------
(* Bounds of the model.                                                    *)

\* longest list handed to rearrange by the enumeration of its inputs
MaxLen == 4
\* largest value tried for each of the three limits (smallest is 1)
MaxLimit == 2
\* most draws other code makes on the generator between two calls
MaxOtherDraws == 2
\* most changes made to the stimulus directory in one run of the model
MaxChanges == 1

-----------------------------------------------------------------------------
(* Strings.                                                                *)

CharAt(s, p) == SubSeq(s, p, p)

\* str.startswith
StartsWith(s, prefix) ==
    /\ Len(s) >= Len(prefix)
    /\ SubSeq(s, 1, Len(prefix)) = prefix

\* str.endswith
EndsWith(s, suffix) ==
    /\ Len(s) >= Len(suffix)
    /\ SubSeq(s, Len(s) - Len(suffix) + 1, Len(s)) = suffix

\* [part for part in filename.split('_') if part], scanning from position p
\* with the part read so far in cur and the parts already closed in parts
RECURSIVE SplitFrom(_, _, _, _)
SplitFrom(s, p, cur, parts) ==
    IF p > Len(s)
    THEN IF cur = "" THEN parts ELSE Append(parts, cur)
    ELSE IF CharAt(s, p) = "_"
         THEN SplitFrom(s, p + 1, "", IF cur = "" THEN parts ELSE Append(parts, cur))
         ELSE SplitFrom(s, p + 1, cur \o CharAt(s, p), parts)

split_name(filename) == SplitFrom(filename, 1, "", <<>>)

\* split_name[index] with Python's 0-based index: the part, or IndexError
Subscript(parts, index) ==
    IF index < Len(parts)
    THEN [ok |-> TRUE, value |-> parts[index + 1]]
    ELSE [ok |-> FALSE, value |-> "IndexError"]

-----------------------------------------------------------------------------
(* path_stimuli.py: attribute extraction.                                  *)

get_condition(filename) == Subscript(split_name(filename), 1)

get_manip(filename) == Subscript(split_name(filename), 3)

get_name_stim(filename) == Subscript(split_name(filename), 0)

\* the dict with manip first and condition last
attributesManipFirst == <<"manip", "name_stim", "condition">>

\* the dict of rearrange, in its insertion order
attributes == <<"condition", "name_stim", "manip">>

get_attribute(attribute, filename) ==
    CASE attribute = "condition" -> get_condition(filename)
      [] attribute = "name_stim" -> get_name_stim(filename)
      [] attribute = "manip"     -> get_manip(filename)

-----------------------------------------------------------------------------
(* path_stimuli.py: rearrange.                                             *)
(*                                                                         *)
(* A frame holds the locals of one call.  i, j and k are Python's 0-based  *)
(* indices; position p of the list is rearranged[p + 1].                   *)

NewFrame(stimuli, condition_limit, name_stim_limit, manip_limit) ==
    [ stimuli         |-> stimuli,
      condition_limit |-> condition_limit,
      name_stim_limit |-> name_stim_limit,
      manip_limit     |-> manip_limit,
      rearranged      |-> stimuli,       \* stimuli.copy()
      attribute       |-> 1,             \* index into attributes
      i               |-> 0,
      j               |-> 0,
      attribute_count |-> 1,
      swaps           |-> 0,             \* swaps made so far (ghost)
      failed          |-> FALSE,         \* a search of this pass found nothing (ghost)
      at_fail         |-> <<>>,          \* the list when it first did (ghost)
      ever_failed     |-> FALSE,         \* a search of this call found nothing (ghost)
      pass_end        |-> <<>>,          \* the list at the end of each pass (ghost)
      warnings        |-> <<>>,          \* what the call has printed or logged
      pc              |-> "for_i" ]

\* eval(f'{attribute}_limit')
attribute_limit(f) ==
    CASE attributes[f.attribute] = "condition" -> f.condition_limit
      [] attributes[f.attribute] = "name_stim" -> f.name_stim_limit
      [] attributes[f.attribute] = "manip"     -> f.manip_limit

\* for k in range(j + 1, len(rearranged)): the first k whose attribute
\* differs from that of position j; -1 when there is none, -2 when
\* extracting the attribute of some position on the way raises
RECURSIVE FindSwap(_, _, _, _)
FindSwap(rearranged, attribute, j, k) ==
    IF k >= Len(rearranged) THEN -1
    ELSE LET ak == get_attribute(attribute, rearranged[k + 1])
             aj == get_attribute(attribute, rearranged[j + 1])
         IN  IF ~ak.ok \/ ~aj.ok THEN -2
             ELSE IF ak.value # aj.value THEN k
             ELSE FindSwap(rearranged, attribute, j, k + 1)

\* a swap that forgets its second assignment: rearranged[j] = rearranged[k]
SwapOverwrite(rearranged, j, k) ==
    [rearranged EXCEPT ![j + 1] = rearranged[k + 1]]

\* a swap with the neighbour of j, whichever k the search found
SwapWithNext(rearranged, j, k) ==
    [rearranged EXCEPT ![j + 1] = rearranged[j + 2], ![j + 2] = rearranged[j + 1]]

\* a swap of k with the position before j
SwapWithPrevious(rearranged, j, k) ==
    [rearranged EXCEPT ![j] = rearranged[k + 1], ![k + 1] = rearranged[j]]

\* rearranged[j], rearranged[k] = rearranged[k], rearranged[j]
Swap(rearranged, j, k) ==
    [rearranged EXCEPT ![j + 1] = rearranged[k + 1], ![k + 1] = rearranged[j + 1]]

\* the header of "for i in range(len(rearranged))", and that of the loop
\* over the attributes when the positions are exhausted
ForI(f) ==
    IF f.i < Len(f.rearranged)
    THEN [f EXCEPT !.attribute_count = 1, !.j = f.i + 1, !.pc = "for_j"]
    ELSE IF f.attribute < Len(attributes)
         THEN [f EXCEPT !.attribute = f.attribute + 1, !.i = 0,
                        !.failed = FALSE, !.at_fail = <<>>,
                        !.pass_end = Append(@, f.rearranged)]
         ELSE [f EXCEPT !.pc = "returned",
                        !.pass_end = Append(@, f.rearranged)]

\* leaving the loop over j (exhausted, or break): the next i
NextI(f) == [f EXCEPT !.i = f.i + 1, !.pc = "for_i"]

\* a failed search that starts the pass over instead of breaking
NotSwappedRestart(f) == [f EXCEPT !.i = 0, !.pc = "for_i"]

\* what "if not swapped: break" does to the frame
NotSwapped(f) == NextI(f)

\* the search found nothing: nothing is printed, logged or flagged
SearchFailed(f) ==
    [f EXCEPT !.failed = TRUE,
              !.at_fail = IF f.failed THEN @ ELSE f.rearranged,
              !.ever_failed = TRUE]

\* one iteration of "for j in range(i + 1, len(rearranged))"
ForJ(f) ==
    IF f.j >= Len(f.rearranged) THEN NextI(f)
    ELSE
    LET attribute == attributes[f.attribute]
        aj == get_attribute(attribute, f.rearranged[f.j + 1])
        ai == get_attribute(attribute, f.rearranged[f.i + 1])
    IN  IF ~aj.ok \/ ~ai.ok THEN [f EXCEPT !.pc = "raised"]
        ELSE
        LET count == IF aj.value = ai.value THEN f.attribute_count + 1 ELSE 1
            g == [f EXCEPT !.attribute_count = count]
        IN  IF count > attribute_limit(f)
            THEN LET k == FindSwap(f.rearranged, attribute, f.j, f.j + 1)
                 IN  CASE k = -2 -> [g EXCEPT !.pc = "raised"]
                       [] k = -1 -> NotSwapped(SearchFailed(g))
                       [] OTHER  -> [g EXCEPT !.rearranged = Swap(f.rearranged, f.j, k),
                                              !.swaps = f.swaps + 1,
                                              !.j = f.j + 1]
            ELSE [g EXCEPT !.j = f.j + 1]

RearrangeRunning(f) == f.pc \in {"for_i", "for_j"}

RearrangeStep(f) == IF f.pc = "for_i" THEN ForI(f) ELSE ForJ(f)

\* the whole call: the frame it ends in
RECURSIVE RunRearrange(_)
RunRearrange(f) == IF RearrangeRunning(f) THEN RunRearrange(RearrangeStep(f)) ELSE f

rearrange(stimuli, condition_limit, name_stim_limit, manip_limit) ==
    RunRearrange(NewFrame(stimuli, condition_limit, name_stim_limit, manip_limit))

-----------------------------------------------------------------------------
(* Inputs of rearrange.                                                    *)

\* ids with four parts, and one with two
WellFormedIds == {"A_x_0_m1", "A_x_0_m2", "B_y_0_m2", "B_y_0_m3"}
ShortIds == {"A_x"}
Ids == WellFormedIds \cup ShortIds

\* ten items that share every attribute value
Adversarial == [p \in 1..10 |-> "A_x_0_m1"]

Lists(S, n) == UNION {[1..m -> S] : m \in 0..n}

RearrangeInputs == Lists(Ids, MaxLen) \cup {Adversarial}

Limits == 1..MaxLimit

\* an id with all the parts the three extractions index
WellFormed(filename) == Len(split_name(filename)) >= 4

AllWellFormed(stimuli) == \A p \in 1..Len(stimuli) : WellFormed(stimuli[p])

-----------------------------------------------------------------------------
(* The state outside a call of rearrange, before anything has run.         *)

NoFile == [exists |-> FALSE, content |-> <<>>]
File(content) == [exists |-> TRUE, content |-> content]

\* a process starts with its generator seeded from the system's entropy
FreshRng == [seed |-> "entropy", requests |-> <<>>]

NoCall == [pc |-> "idle"]

\* path_and_randomization.py, lines 50-56
NameCoordinations ==
    <<"gabi__leni__", "leni__mimmi_", "lilli_gabi__", "moni__lilli_", "nelli_moni__">>

\* no script running, no lone call of an extraction
RestIdle ==
    /\ extract = NoCall
    /\ exists = {}
    /\ check = NoCall
    /\ script = NoCall
    /\ phase = NoCall

\* path_and_randomization.py imported, load_and_randomize not yet called
RandomizeIdle ==
    /\ name_coordinations = NameCoordinations
    /\ randomize = NoCall
    /\ randomized_imitation_stimuli_csv = NoFile

NothingElse ==
    /\ RandomizeIdle
    /\ RestIdle
    /\ directory = {}
    /\ changes = 0
    /\ randomized_stimuli_pkl = NoFile
    /\ randomized_stimuli_csv = NoFile
    /\ rng = FreshRng
    /\ mt666 = <<>>
    /\ create = NoCall
    /\ load = NoCall
    /\ first_run = NoCall

-----------------------------------------------------------------------------
(* rearrange, step by step, on every input.                                *)

RearrangeInit ==
    /\ \E stimuli \in RearrangeInputs, cl \in Limits, nl \in Limits, ml \in Limits :
          frame = NewFrame(stimuli, cl, nl, ml)
    /\ NothingElse

RForI ==
    /\ frame.pc = "for_i"
    /\ frame' = ForI(frame)
    /\ UNCHANGED notRearrangeVars

RForJ ==
    /\ frame.pc = "for_j"
    /\ frame' = ForJ(frame)
    /\ UNCHANGED notRearrangeVars

RearrangeNext == RForI \/ RForJ

SpecRearrange == RearrangeInit /\ [][RearrangeNext]_vars

\* the calls whose termination is checked: well-formed ids only, one item
\* shorter than above (the check of every behaviour's end costs more), and
\* the ten equal items
RearrangeFairInit ==
    /\ \E stimuli \in Lists(WellFormedIds, MaxLen - 1) \cup {Adversarial},
          cl \in Limits, nl \in Limits, ml \in Limits :
          frame = NewFrame(stimuli, cl, nl, ml)
    /\ NothingElse

\* a for loop always takes its next step
SpecRearrangeFair ==
    RearrangeFairInit /\ [][RearrangeNext]_vars /\ WF_vars(RearrangeNext)

-----------------------------------------------------------------------------
(* Properties of rearrange.                                                *)

Count(x, s) == Cardinality({p \in 1..Len(s) : s[p] = x})

\* the same ids, each as often
SameMultiset(s, t) ==
    /\ Len(s) = Len(t)
    /\ \A p \in 1..Len(s) : Count(s[p], s) = Count(s[p], t)

\* the values an attribute takes in s (s well formed)
Values(attribute, s) == {get_attribute(attribute, s[p]).value : p \in 1..Len(s)}

Occurrences(attribute, v, s) ==
    Cardinality({p \in 1..Len(s) : get_attribute(attribute, s[p]).value = v})

\* n consecutive items of s with the same value of the attribute
HasRun(attribute, s, n) ==
    \E p \in 1..(Len(s) - n + 1) :
        \A q \in p..(p + n - 1) :
            get_attribute(attribute, s[q]).value = get_attribute(attribute, s[p]).value

LimitOf(f, attribute) ==
    CASE attribute = "condition" -> f.condition_limit
      [] attribute = "name_stim" -> f.name_stim_limit
      [] attribute = "manip"     -> f.manip_limit

AttributeNames == {attributes[a] : a \in 1..Len(attributes)}

\* every value of every attribute occurs at most len / (L + 1) times
StrictlySatisfiable(f) ==
    /\ AllWellFormed(f.stimuli)
    /\ \A attribute \in AttributeNames :
         \A v \in Values(attribute, f.stimuli) :
            Occurrences(attribute, v, f.stimuli) * (LimitOf(f, attribute) + 1)
                <= Len(f.stimuli)

\* C1: at every point of a call of rearrange, and so in the list it returns,
\* the working list has the length of the input and holds every id as often
\* as the input does.
C1_Permutation == SameMultiset(frame.rearranged, frame.stimuli)

\* a call that returned after swapping, on an input that holds an id twice
C1_Witness ==
    /\ frame.pc = "returned"
    /\ frame.swaps >= 2
    /\ \E p \in 1..Len(frame.stimuli) : Count(frame.stimuli[p], frame.stimuli) >= 2
    /\ frame.rearranged # frame.stimuli

\* C2: on an input in which every value of every attribute occurs at most
\* len / (L + 1) times, the returned list has no run longer than L, for the
\* three attributes at once.
C2_NoLongRun ==
    (frame.pc = "returned" /\ StrictlySatisfiable(frame))
        => \A attribute \in AttributeNames :
              ~HasRun(attribute, frame.rearranged, LimitOf(frame, attribute) + 1)

\* C3: every call of rearrange on well-formed ids, with limits of 1 and
\* more, comes to its return: it neither loops forever nor raises.
C3_Terminates == <>(frame.pc = "returned")

\* the ten equal items, limit 2: returned, no swap candidate ever found
C3_Witness ==
    /\ frame.pc = "returned"
    /\ frame.stimuli = Adversarial
    /\ frame.manip_limit = 2 /\ frame.condition_limit = 2 /\ frame.name_stim_limit = 2
    /\ frame.swaps = 0
    /\ frame.rearranged = Adversarial

-----------------------------------------------------------------------------
(* path_stimuli.py: the stimulus directory, the generator, grouping.       *)

\* the files the stimulus directory may hold
Files == { "A_x_0_m1.wav", "A_x_0_m2.wav",   \* four parts, same first five characters
           "A_x_0.wav",                       \* three parts, groups with A_x_0_...
           "C_z.wav",                         \* two parts, a group of its own
           "notes.txt" }                      \* not a stimulus

\* the injective maps of 1..n onto itself
Perms(n) == {f \in [1..n -> 1..n] : \A p, q \in 1..n : f[p] = f[q] => p = q}

\* the list x in the order perm
InOrder(x, perm) == [p \in 1..Len(x) |-> x[perm[p]]]

\* load_stimuli: the '.wav' names of the directory
WavFiles(dir) == {f \in dir : EndsWith(f, ".wav")}

\* os.listdir gives the names in an order of its own choosing; load_stimuli
\* keeps the '.wav' names in that order
Listings(dir) ==
    LET wavs == WavFiles(dir)
    IN  {x \in [1..Cardinality(wavs) -> wavs] :
            \A p, q \in 1..Cardinality(wavs) : x[p] = x[q] => p = q}

\* random.seed(666) that leaves the generator where it is
SeedKeepsState(r) == [r EXCEPT !.seed = "666"]

\* random.seed(666): the generator starts over from the state 666 fixes
Seed666(r) == [seed |-> "666", requests |-> <<>>]

\* What random.shuffle may do to x.  The generator is a function of its
\* seed and of the requests made since seeding, not known here: seeded with
\* 666 it answers a request it has answered before (mt666) the same way, and
\* a new one in any way; seeded from entropy it answers in any way.
Request(r, x) == Append(r.requests, Len(x))

ShuffleChoices(r, table, x) ==
    IF r.seed = "666" /\ Request(r, x) \in DOMAIN table
    THEN {table[Request(r, x)]}
    ELSE Perms(Len(x))

AfterShuffle(r, x) ==
    IF r.seed = "666" THEN [r EXCEPT !.requests = Request(r, x)] ELSE r

Remember(r, table, x, perm) ==
    IF r.seed = "666" /\ Request(r, x) \notin DOMAIN table
    THEN [h \in DOMAIN table \cup {Request(r, x)} |->
            IF h = Request(r, x) THEN perm ELSE table[h]]
    ELSE table

\* stimulus[:5]
FirstFive(stimulus) == SubSeq(stimulus, 1, IF Len(stimulus) < 5 THEN Len(stimulus) ELSE 5)

\* groups[name_stim].append(stimulus) on the dict in insertion order
GroupAppend(groups, name_stim, stimulus) ==
    IF \E q \in 1..Len(groups) : groups[q].name_stim = name_stim
    THEN [q \in 1..Len(groups) |->
            IF groups[q].name_stim = name_stim
            THEN [groups[q] EXCEPT !.stimuli = Append(@, stimulus)]
            ELSE groups[q]]
    ELSE Append(groups, [name_stim |-> name_stim, stimuli |-> <<stimulus>>])

RECURSIVE GroupFrom(_, _, _)
GroupFrom(stimuli, p, groups) ==
    IF p > Len(stimuli) THEN groups
    ELSE GroupFrom(stimuli, p + 1, GroupAppend(groups, FirstFive(stimuli[p]), stimuli[p]))

group_stimuli(stimuli) == GroupFrom(stimuli, 1, <<>>)

-----------------------------------------------------------------------------
(* path_stimuli.py: create_randomized_stimuli.                             *)

\* the default of each limit of rearrange
DefaultLimit == 3

\* lines 235-239: the listing, the seed, the groups, the empty result.
\* The limits are those the loop hands to rearrange: its defaults.
CreateEnter(listing, groups, limits, r) ==
    [ pc                 |-> "loop",
      stimuli            |-> listing,
      groups             |-> groups,
      g                  |-> 1,            \* the group the loop is at
      limits             |-> limits,
      randomized_stimuli |-> <<>>,
      entry_rng          |-> r ]           \* the generator at the call (ghost)

CreateCall ==
    /\ create.pc = "call"
    /\ \E listing \in Listings(directory) :
          create' = CreateEnter(listing, group_stimuli(listing),
                                <<DefaultLimit, DefaultLimit, DefaultLimit>>, rng)
    /\ rng' = Seed666(rng)
    /\ UNCHANGED <<mt666, notCreateVars>>

\* one turn of the loop: shuffle the group, rearrange it, extend the result;
\* an IndexError of rearrange ends the call
CreateGroup ==
    /\ create.pc = "loop"
    /\ create.g <= Len(create.groups)
    /\ LET stimuli == create.groups[create.g].stimuli
       IN  \E perm \in ShuffleChoices(rng, mt666, stimuli) :
              LET shuffled == InOrder(stimuli, perm)
                  rearranged == rearrange(shuffled, create.limits[1],
                                          create.limits[2], create.limits[3])
              IN  /\ create' =
                        IF rearranged.pc = "raised"
                        THEN [create EXCEPT !.pc = "raised"]
                        ELSE [create EXCEPT
                                !.groups[create.g].stimuli = shuffled,  \* in place
                                !.randomized_stimuli = @ \o rearranged.rearranged,
                                !.g = @ + 1]
                  /\ rng' = AfterShuffle(rng, stimuli)
                  /\ mt666' = Remember(rng, mt666, stimuli, perm)
    /\ UNCHANGED notCreateVars

CreateReturn ==
    /\ create.pc = "loop"
    /\ create.g > Len(create.groups)
    /\ create' = [create EXCEPT !.pc = "returned"]
    /\ UNCHANGED <<rngVars, notCreateVars>>

CreateNext == CreateCall \/ CreateGroup \/ CreateReturn

-----------------------------------------------------------------------------
(* create_randomized_stimuli called twice in one process, on a directory   *)
(* that stays as it is, other code drawing random numbers in between.      *)

CreateInit ==
    /\ RandomizeIdle
    /\ RestIdle
    /\ directory \in SUBSET Files
    /\ changes = 0
    /\ create = NoCall
    /\ rng = FreshRng
    /\ mt666 = <<>>
    /\ first_run = NoCall
    /\ frame = NoCall
    /\ load = NoCall
    /\ randomized_stimuli_pkl = NoFile
    /\ randomized_stimuli_csv = NoFile

CreateInvoke ==
    /\ create.pc = "idle"
    /\ create' = [pc |-> "call"]
    /\ UNCHANGED <<rngVars, notCreateVars>>

\* the first call is over: it is kept to compare the second one with
CreateExit ==
    /\ create.pc \in {"returned", "raised"}
    /\ first_run.pc = "idle"
    /\ first_run' = [ pc |-> "done", stimuli |-> create.stimuli,
                      outcome |-> create.pc,
                      randomized_stimuli |-> create.randomized_stimuli ]
    /\ create' = NoCall
    /\ UNCHANGED <<rngVars, fileVars, load, elsewhereVars>>

\* other code of the process draws from the module's generator
ConsumeRandom ==
    /\ create.pc = "idle"
    /\ rng.seed = "666"
    /\ Len(rng.requests) < MaxOtherDraws
    /\ rng' = [rng EXCEPT !.requests = Append(@, 0)]
    /\ UNCHANGED <<mt666, create, notCreateVars>>

SpecCreateNext ==
    \/ CreateInvoke
    \/ CreateCall
    \/ CreateGroup
    \/ CreateReturn
    \/ CreateExit
    \/ ConsumeRandom

SpecCreate == CreateInit /\ [][SpecCreateNext]_vars

CreateOver == create.pc \in {"returned", "raised"}

\* C7: a call of create_randomized_stimuli that sees the listing the first
\* call saw ends as the first call did: with the same ordering, or with the
\* same raise, whatever was drawn from the generator in between.
C7_Deterministic ==
    (CreateOver /\ first_run.pc = "done" /\ create.stimuli = first_run.stimuli)
        => /\ create.pc = first_run.outcome
           /\ create.randomized_stimuli = first_run.randomized_stimuli

\* a later call on the same listing, entered after other draws, whose
\* shuffle changed the order of a group
C7_Witness ==
    /\ create.pc = "returned"
    /\ first_run.pc = "done"
    /\ create.stimuli = first_run.stimuli
    /\ create.entry_rng.seed = "666"
    /\ \E p \in 1..Len(create.entry_rng.requests) : create.entry_rng.requests[p] = 0
    /\ create.randomized_stimuli # create.stimuli
    /\ create.randomized_stimuli = first_run.randomized_stimuli

\* C10: create_randomized_stimuli returns no sequence for a listing that
\* holds an id of fewer than four parts.
C10_AbortsOnMalformed ==
    create.pc = "returned" => AllWellFormed(create.stimuli)

-----------------------------------------------------------------------------
(* path_stimuli.py: load_or_generate_stimuli, called again and again, the  *)
(* stimulus directory changing between the calls.                          *)

\* a check that only looks for names that are not in the directory
NoneUnlisted(original_stimuli_set, randomized_stimuli) ==
    {randomized_stimuli[p] : p \in 1..Len(randomized_stimuli)} \subseteq original_stimuli_set

\* original_stimuli_set == randomized_stimuli_set
SameElements(original_stimuli_set, randomized_stimuli) ==
    original_stimuli_set = {randomized_stimuli[p] : p \in 1..Len(randomized_stimuli)}

LoadInit ==
    /\ RandomizeIdle
    /\ RestIdle
    /\ directory \in SUBSET Files
    /\ changes = 0
    /\ randomized_stimuli_pkl = NoFile
    /\ randomized_stimuli_csv = NoFile
    /\ rng = FreshRng
    /\ mt666 = <<>>
    /\ create = NoCall
    /\ load = NoCall
    /\ frame = NoCall
    /\ first_run = NoCall

\* a call that generates whether there is a stored ordering or not
LoadCallRegenerate ==
    /\ load.pc = "idle"
    /\ load' = [ pc |-> "generate", stimuli |-> WavFiles(directory),
                 randomized_stimuli |-> <<>>,
                 persisted |-> FALSE, checked |-> FALSE ]
    /\ create' = [pc |-> "call"]
    /\ UNCHANGED <<fileVars, rngVars, notLoadVars>>

\* lines 109-119: the listing; the stored ordering if there is one.  The
\* call uses its listing in set(stimuli) only, so the frame keeps that set.
LoadCall ==
    /\ load.pc = "idle"
    /\ IF randomized_stimuli_pkl.exists
       THEN /\ load' = [ pc |-> "assert", stimuli |-> WavFiles(directory),
                         randomized_stimuli |-> randomized_stimuli_pkl.content,
                         persisted |-> FALSE, checked |-> FALSE ]
            /\ create' = create
       ELSE /\ load' = [ pc |-> "generate", stimuli |-> WavFiles(directory),
                         randomized_stimuli |-> <<>>,
                         persisted |-> FALSE, checked |-> FALSE ]
            /\ create' = [pc |-> "call"]
    /\ UNCHANGED <<fileVars, rngVars, notLoadVars>>

\* lines 122-126: the generated ordering is pickled
LoadDump ==
    /\ load.pc = "generate"
    /\ create.pc = "returned"
    /\ load' = [load EXCEPT !.pc = "write_csv",
                            !.randomized_stimuli = create.randomized_stimuli,
                            !.persisted = TRUE]
    /\ randomized_stimuli_pkl' = File(create.randomized_stimuli)
    /\ create' = NoCall
    /\ UNCHANGED <<directory, changes, randomized_stimuli_csv, rngVars, notLoadVars>>

\* the IndexError of create_randomized_stimuli ends the call
LoadIndexError ==
    /\ load.pc = "generate"
    /\ create.pc = "raised"
    /\ load' = [load EXCEPT !.pc = "index_error"]
    /\ create' = NoCall
    /\ UNCHANGED <<fileVars, rngVars, notLoadVars>>

\* lines 129-132: one row for each item
LoadWriteCsv ==
    /\ load.pc = "write_csv"
    /\ randomized_stimuli_csv' =
          File([p \in 1..Len(load.randomized_stimuli) |-> <<load.randomized_stimuli[p]>>])
    /\ load' = [load EXCEPT !.pc = "assert"]
    /\ UNCHANGED <<directory, changes, randomized_stimuli_pkl, rngVars, create, notLoadVars>>

\* lines 135-139: the assertion, then the return
LoadAssert ==
    /\ load.pc = "assert"
    /\ load' = [load EXCEPT
                  !.checked = TRUE,
                  !.pc = IF SameElements(load.stimuli, load.randomized_stimuli)
                         THEN "returned" ELSE "assertion_error"]
    /\ UNCHANGED <<fileVars, rngVars, create, notLoadVars>>

LoadOver == load.pc \in {"returned", "assertion_error", "index_error"}

\* back in the caller
LoadExit ==
    /\ LoadOver
    /\ load' = NoCall
    /\ UNCHANGED <<fileVars, rngVars, create, notLoadVars>>

\* between two calls a file is put into the stimulus directory or taken out
AddFile ==
    /\ load.pc = "idle"
    /\ changes < MaxChanges
    /\ changes' = changes + 1
    /\ \E f \in Files \ directory : directory' = directory \cup {f}
    /\ UNCHANGED <<randomized_stimuli_pkl, randomized_stimuli_csv, rngVars,
                   create, load, notLoadVars>>

RemoveFile ==
    /\ load.pc = "idle"
    /\ changes < MaxChanges
    /\ changes' = changes + 1
    /\ \E f \in directory : directory' = directory \ {f}
    /\ UNCHANGED <<randomized_stimuli_pkl, randomized_stimuli_csv, rngVars,
                   create, load, notLoadVars>>

SpecLoadNext ==
    \/ LoadCall
    \/ CreateCall
    \/ CreateGroup
    \/ CreateReturn
    \/ LoadDump
    \/ LoadIndexError
    \/ LoadWriteCsv
    \/ LoadAssert
    \/ LoadExit
    \/ AddFile
    \/ RemoveFile

SpecLoad == LoadInit /\ [][SpecLoadNext]_vars

\* s lists exactly the '.wav' names of dir, each once
ListsExactly(s, dir) ==
    /\ {s[p] : p \in 1..Len(s)} = WavFiles(dir)
    /\ Len(s) = Cardinality(WavFiles(dir))

\* C5 as amended: a call of load_or_generate_stimuli that returns, returns
\* exactly the '.wav' names now in the directory, each once; a call that
\* does not, fails its assertion on a stored ordering whose names are not
\* those of the directory, or passes on the IndexError of the extraction of
\* an attribute from a name of fewer than four parts.
C5_ReturnsExactlyOrFails ==
    /\ load.pc = "returned" => ListsExactly(load.randomized_stimuli, directory)
    /\ load.pc = "assertion_error" =>
          /\ randomized_stimuli_pkl.exists
          /\ ~ListsExactly(randomized_stimuli_pkl.content, directory)
    /\ load.pc = "index_error" =>
          \E f \in directory : EndsWith(f, ".wav") /\ ~WellFormed(f)

\* a call that returns the ordering an earlier call stored, the directory
\* having changed and changed back in between
C5_Witness ==
    /\ load.pc = "returned"
    /\ ~load.persisted
    /\ Len(load.randomized_stimuli) >= 2
    /\ changes >= 1
    /\ "notes.txt" \in directory

\* C5 as stated: a call that does not return the names of the directory
\* fails with an assertion error.
C5_ReturnsExactlyOrAsserts ==
    LoadOver =>
        \/ load.pc = "returned" /\ ListsExactly(load.randomized_stimuli, directory)
        \/ load.pc = "assertion_error"

\* C6: while a call has an ordering in the pickle or the CSV file, that call
\* has made its check of the two sets, and the check has passed.
C6_CheckedBeforePersisted ==
    (load.pc # "idle" /\ load.persisted)
        => /\ load.checked
           /\ SameElements(load.stimuli, randomized_stimuli_pkl.content)

-----------------------------------------------------------------------------
(* The six ids of the concrete scenario, in two groups by their first      *)
(* part, each group shuffled in any way, rearranged with manip_limit = 2   *)
(* and appended: the loop of create_randomized_stimuli on these groups.    *)

ScenarioIds == {"A_x_0_m1", "A_y_0_m1", "A_z_0_m2", "B_x_0_m1", "B_y_0_m2", "B_z_0_m1"}

\* the ids of a listing, in its order
AllListings(ids) ==
    {x \in [1..Cardinality(ids) -> ids] :
        \A p, q \in 1..Cardinality(ids) : x[p] = x[q] => p = q}

\* the groups by first part, in the order in which the listing meets them
GroupOf(listing, name_stim) ==
    [name_stim |-> name_stim,
     stimuli   |-> SelectSeq(listing, LAMBDA f : get_name_stim(f).value = name_stim)]

GroupsByFirstPart(listing) ==
    LET first == get_name_stim(listing[1]).value
        other == CHOOSE n \in {"A", "B"} : n # first
    IN  <<GroupOf(listing, first), GroupOf(listing, other)>>

ScenarioInit ==
    /\ \E listing \in AllListings(ScenarioIds) :
          create = CreateEnter(listing, GroupsByFirstPart(listing),
                               <<DefaultLimit, DefaultLimit, 2>>, FreshRng)
    /\ rng = FreshRng
    /\ mt666 = <<>>
    /\ directory = {}
    /\ changes = 0
    /\ randomized_stimuli_pkl = NoFile
    /\ randomized_stimuli_csv = NoFile
    /\ load = NoCall
    /\ first_run = NoCall
    /\ frame = NoCall
    /\ RandomizeIdle
    /\ RestIdle

ScenarioNext == CreateGroup \/ CreateReturn

SpecScenario == ScenarioInit /\ [][ScenarioNext]_vars

\* C9: the concatenation of the two rearranged groups nowhere has three
\* items in a row with the same fourth part.
C9_NoThreeEqualManip ==
    create.pc = "returned" => ~HasRun("manip", create.randomized_stimuli, 3)

-----------------------------------------------------------------------------
(* path_and_randomization.py: attribute extraction.                        *)

\* str.find, from position p on: where sub first starts in s, 0 if nowhere
RECURSIVE FindFrom(_, _, _)
FindFrom(s, sub, p) ==
    IF p + Len(sub) - 1 > Len(s) THEN 0
    ELSE IF SubSeq(s, p, p + Len(sub) - 1) = sub THEN p
    ELSE FindFrom(s, sub, p + 1)

\* s.split(sub)[0]
BeforeFirst(s, sub) ==
    LET p == FindFrom(s, sub, 1)
    IN  IF p = 0 THEN s ELSE SubSeq(s, 1, p - 1)

\* s.replace(sub, '')
RECURSIVE Without(_, _)
Without(s, sub) ==
    LET p == FindFrom(s, sub, 1)
    IN  IF p = 0 THEN s
        ELSE SubSeq(s, 1, p - 1) \o Without(SubSeq(s, p + Len(sub), Len(s)), sub)

\* split_name[-1].replace('.wav', ''), or IndexError
randomization_get_manip(filename) ==
    LET parts == split_name(filename)
    IN  IF Len(parts) > 0
        THEN [ok |-> TRUE, value |-> Without(parts[Len(parts)], ".wav")]
        ELSE [ok |-> FALSE, value |-> "IndexError"]

\* filename.split('_bra_')[0] + '_'
randomization_get_name_stim(filename) == BeforeFirst(filename, "_bra_") \o "_"

get_stimulus_data(filename) ==
    [ ok        |-> randomization_get_manip(filename).ok,
      filename  |-> filename,
      manip     |-> randomization_get_manip(filename).value,
      name_stim |-> randomization_get_name_stim(filename) ]

-----------------------------------------------------------------------------
(* path_and_randomization.py: load_and_randomize.                          *)

\* the first coordination, in the order of the list, the stimulus starts
\* with (the loop with its break), 0 if it starts with none
FirstCoordination(stimulus, coordinations) ==
    IF \E q \in 1..Len(coordinations) : StartsWith(stimulus, coordinations[q])
    THEN CHOOSE q \in 1..Len(coordinations) :
            /\ StartsWith(stimulus, coordinations[q])
            /\ \A o \in 1..(q - 1) : ~StartsWith(stimulus, coordinations[o])
    ELSE 0

\* lines 72-78: the dict coordination_groups, in insertion order
SplitIntoGroups(stimuli_data_list, coordinations) ==
    [q \in 1..Len(coordinations) |->
        [ coordination |-> coordinations[q],
          stimuli      |-> SelectSeq(stimuli_data_list,
                              LAMBDA d : FirstCoordination(d.filename, coordinations) = q) ]]

\* coordination_groups[coordination]
GroupAt(coordination_groups, coordination) ==
    CHOOSE q \in 1..Len(coordination_groups) :
        coordination_groups[q].coordination = coordination

\* lines 84-87: the groups' stimuli, in the order of the coordinations from k on
RECURSIVE Combine(_, _, _)
Combine(coordination_groups, coordinations, k) ==
    IF k > Len(coordinations) THEN <<>>
    ELSE coordination_groups[GroupAt(coordination_groups, coordinations[k])].stimuli
            \o Combine(coordination_groups, coordinations, k + 1)

\* the dict of the blocks with its keys in the order of lines 50-56
SegregateInWrittenOrder(randomized_stimuli_data, coordinations) ==
    LET randomized_stimuli ==
            [p \in 1..Len(randomized_stimuli_data) |-> randomized_stimuli_data[p].filename]
    IN  [q \in 1..Len(NameCoordinations) |->
            [ name_coord |-> NameCoordinations[q],
              stimuli    |-> SelectSeq(randomized_stimuli,
                                LAMBDA stim : StartsWith(stim, NameCoordinations[q])) ]]

\* lines 183-188: the filenames, and the dict of the blocks in the order of
\* the coordinations
Segregate(randomized_stimuli_data, coordinations) ==
    LET randomized_stimuli ==
            [p \in 1..Len(randomized_stimuli_data) |-> randomized_stimuli_data[p].filename]
    IN  [q \in 1..Len(coordinations) |->
            [ name_coord |-> coordinations[q],
              stimuli    |-> SelectSeq(randomized_stimuli,
                                LAMBDA stim : StartsWith(stim, coordinations[q])) ]]

\* the stimulus directory of the imitation task: two files of one
\* coordination, one of another, one of a pair of names not in the list
ImitationFiles ==
    { "gabi__leni__bra_1.wav", "gabi__leni__bra_2.wav",
      "nelli_moni__bra_1.wav", "otto__leni__bra_1.wav" }

\* what load_and_randomize and its callees leave alone
notRandomizeVars == <<frame, fileVars, create, load, first_run, restVars>>

RandomizeInit ==
    /\ directory \in SUBSET ImitationFiles
    /\ changes = 0
    /\ RandomizeIdle
    /\ RestIdle
    /\ rng = FreshRng
    /\ mt666 = <<>>
    /\ randomized_stimuli_pkl = NoFile
    /\ randomized_stimuli_csv = NoFile
    /\ create = NoCall
    /\ load = NoCall
    /\ first_run = NoCall
    /\ frame = NoCall

\* load_stimuli, the stimulus data of each file (an IndexError of get_manip
\* ends the call), and the split into the coordination groups
LoadAndRandomizeCall ==
    /\ randomize.pc = "idle"
    /\ \E stimuli_files \in Listings(directory) :
          LET stimulus_data ==
                [p \in 1..Len(stimuli_files) |-> get_stimulus_data(stimuli_files[p])]
          IN  randomize' =
                IF \E p \in 1..Len(stimuli_files) : ~stimulus_data[p].ok
                THEN [pc |-> "index_error", stimuli_files |-> stimuli_files]
                ELSE [ pc                  |-> "shuffle_coordinations",
                       stimuli_files       |-> stimuli_files,
                       coordination_groups |->
                           SplitIntoGroups(stimulus_data, name_coordinations),
                       k                   |-> 1,
                       segregated_stimuli  |-> <<>> ]
    /\ UNCHANGED <<name_coordinations, randomized_imitation_stimuli_csv,
                   rngVars, notRandomizeVars>>

\* a shuffle whose exchange of two items forgets its second assignment
ShuffleCoordinationsOverwriting ==
    /\ randomize.pc = "shuffle_coordinations"
    /\ \E perm \in ShuffleChoices(rng, mt666, name_coordinations) :
          /\ name_coordinations' =
                [name_coordinations EXCEPT ![perm[1]] = name_coordinations[perm[2]]]
          /\ rng' = AfterShuffle(rng, name_coordinations)
          /\ mt666' = Remember(rng, mt666, name_coordinations, perm)
    /\ randomize' = [randomize EXCEPT !.pc = "shuffle_groups"]
    /\ UNCHANGED <<randomized_imitation_stimuli_csv, notRandomizeVars>>

\* line 80: random.shuffle(name_coordinations), the module's own list
ShuffleCoordinations ==
    /\ randomize.pc = "shuffle_coordinations"
    /\ \E perm \in ShuffleChoices(rng, mt666, name_coordinations) :
          /\ name_coordinations' = InOrder(name_coordinations, perm)
          /\ rng' = AfterShuffle(rng, name_coordinations)
          /\ mt666' = Remember(rng, mt666, name_coordinations, perm)
    /\ randomize' = [randomize EXCEPT !.pc = "shuffle_groups"]
    /\ UNCHANGED <<randomized_imitation_stimuli_csv, notRandomizeVars>>

\* lines 82-83, one turn: random.shuffle(coordination_groups[coordination])
ShuffleGroup ==
    /\ randomize.pc = "shuffle_groups"
    /\ randomize.k <= Len(name_coordinations)
    /\ LET q == GroupAt(randomize.coordination_groups, name_coordinations[randomize.k])
           stimuli == randomize.coordination_groups[q].stimuli
       IN  \E perm \in ShuffleChoices(rng, mt666, stimuli) :
              /\ randomize' = [randomize EXCEPT
                                 !.coordination_groups[q].stimuli = InOrder(stimuli, perm),
                                 !.k = @ + 1]
              /\ rng' = AfterShuffle(rng, stimuli)
              /\ mt666' = Remember(rng, mt666, stimuli, perm)
    /\ UNCHANGED <<name_coordinations, randomized_imitation_stimuli_csv, notRandomizeVars>>

\* lines 84-88 and 183-190: the groups combined, the filenames, the blocks
CombineAndSegregate ==
    /\ randomize.pc = "shuffle_groups"
    /\ randomize.k > Len(name_coordinations)
    /\ randomize' = [randomize EXCEPT
                       !.pc = "save",
                       !.segregated_stimuli =
                           Segregate(Combine(randomize.coordination_groups,
                                             name_coordinations, 1),
                                     name_coordinations)]
    /\ UNCHANGED <<name_coordinations, randomized_imitation_stimuli_csv,
                   rngVars, notRandomizeVars>>

\* save_randomized_stimuli: the header, then a row for each item the loop
\* over the dict yields, which are its keys; then the return
SaveRandomizedStimuli ==
    /\ randomize.pc = "save"
    /\ randomized_imitation_stimuli_csv' =
          File(<<<<"filename">>>> \o
               [q \in 1..Len(randomize.segregated_stimuli) |->
                    <<randomize.segregated_stimuli[q].name_coord>>])
    /\ randomize' = [randomize EXCEPT !.pc = "returned"]
    /\ UNCHANGED <<name_coordinations, rngVars, notRandomizeVars>>

RandomizeNext ==
    \/ LoadAndRandomizeCall
    \/ ShuffleCoordinations
    \/ ShuffleGroup
    \/ CombineAndSegregate
    \/ SaveRandomizedStimuli

SpecRandomize == RandomizeInit /\ [][RandomizeNext]_vars

\* the blocks of the returned dict one after the other: what the test phase
\* presents, in its order
RECURSIVE Blocks(_, _)
Blocks(segregated_stimuli, q) ==
    IF q > Len(segregated_stimuli) THEN <<>>
    ELSE segregated_stimuli[q].stimuli \o Blocks(segregated_stimuli, q + 1)

\* C4: every filename handed to randomize_stimuli is in the returned blocks
\* exactly as often as in the input: the blocks together are a permutation
\* of the input.
C4_BlocksArePermutation ==
    randomize.pc = "returned" =>
        SameMultiset(Blocks(randomize.segregated_stimuli, 1), randomize.stimuli_files)

\* C8: the file written by load_and_randomize is the header row 'filename'
\* and then one row for each stimulus id of the randomized sequence, in the
\* order of presentation.
C8_OneRowPerStimulus ==
    randomized_imitation_stimuli_csv.exists =>
        LET presented == Blocks(randomize.segregated_stimuli, 1)
        IN  randomized_imitation_stimuli_csv.content =
                <<<<"filename">>>> \o [p \in 1..Len(presented) |-> <<presented[p]>>]

-----------------------------------------------------------------------------
(* The extraction functions of both conventions, each applied to the       *)
(* filenames built from four known values.                                 *)

\* the values a filename is built from: non-empty, without underscore
Tokens == {"A", "bra", "0"}

\* the four values joined with underscores, and the suffix load_stimuli
\* asks for
build(name, condition, t2, manip) ==
    name \o "_" \o condition \o "_" \o t2 \o "_" \o manip \o ".wav"

ExtractInit ==
    /\ \E name \in Tokens, condition \in Tokens, t2 \in Tokens, manip \in Tokens :
          extract = [ pc        |-> "built",
                      name      |-> name,
                      condition |-> condition,
                      t2        |-> t2,
                      manip     |-> manip,
                      filename  |-> build(name, condition, t2, manip) ]
    /\ exists = {}
    /\ check = NoCall
    /\ script = NoCall
    /\ phase = NoCall
    /\ RandomizeIdle
    /\ directory = {}
    /\ changes = 0
    /\ randomized_stimuli_pkl = NoFile
    /\ randomized_stimuli_csv = NoFile
    /\ rng = FreshRng
    /\ mt666 = <<>>
    /\ create = NoCall
    /\ load = NoCall
    /\ first_run = NoCall
    /\ frame = NoCall

notExtractVars ==
    <<frame, fileVars, rngVars, create, load, first_run, randomizeVars,
      exists, check, script, phase>>

\* path_stimuli.py: get_name_stim, get_condition, get_manip of the filename
ExtractPositional ==
    /\ extract.pc = "built"
    /\ extract' = [ pc        |-> "positional",
                    name      |-> extract.name,
                    condition |-> extract.condition,
                    t2        |-> extract.t2,
                    manip     |-> extract.manip,
                    filename  |-> extract.filename,
                    extracted |-> [ name_stim |-> get_name_stim(extract.filename),
                                    condition |-> get_condition(extract.filename),
                                    manip     |-> get_manip(extract.filename) ] ]
    /\ UNCHANGED notExtractVars

\* path_and_randomization.py: get_stimulus_data of the filename
ExtractMarker ==
    /\ extract.pc = "built"
    /\ extract' = [ pc        |-> "marker",
                    name      |-> extract.name,
                    condition |-> extract.condition,
                    t2        |-> extract.t2,
                    manip     |-> extract.manip,
                    filename  |-> extract.filename,
                    extracted |-> get_stimulus_data(extract.filename) ]
    /\ UNCHANGED notExtractVars

ExtractNext == ExtractPositional \/ ExtractMarker

SpecExtract == ExtractInit /\ [][ExtractNext]_vars

\* C11: get_stimulus_data returns no record for a filename that does not
\* contain the marker '_bra_': the call ends with an error.
C11_NoRecordWithoutMarker ==
    (extract.pc = "marker" /\ FindFrom(extract.filename, "_bra_", 1) = 0)
        => ~extract.extracted.ok

\* C17: the positional extraction gives back the values the filename was
\* built from: get_name_stim the first, get_condition the second, get_manip
\* the fourth.
C17_RoundTrip ==
    extract.pc = "positional" =>
        /\ extract.extracted.name_stim = [ok |-> TRUE, value |-> extract.name]
        /\ extract.extracted.condition = [ok |-> TRUE, value |-> extract.condition]
        /\ extract.extracted.manip     = [ok |-> TRUE, value |-> extract.manip]

-----------------------------------------------------------------------------
(* check_and_create_config_paths, of path_and_randomization.py and of      *)
(* path_stimuli.py: the same statements, the second one writing the two    *)
(* result files at its end.                                                *)

\* the directories the three checks ask for
Required == {"stim_path", "practice_stim_path", "pics_path"}

\* what the configuration names, and the two result files
Paths ==
    Required \cup {"output_path", "record_path", "random_path", "subj_path_results",
                   "practice_output_filename", "test_output_filename"}

\* the statements with the first directory made before the last check
StatementsCreateFirst ==
    << "stim_path", "practice_stim_path", "output_path", "pics_path",
       "record_path", "random_path", "subj_path_results" >>

\* the statements in their order, each named by the path it looks at
Statements ==
    << "stim_path", "practice_stim_path", "pics_path", "output_path",
       "record_path", "random_path", "subj_path_results" >>

\* a file system that can be: the results directory of a participant lies
\* in the output directory, the result files in the results directory
PossibleFileSystem(paths) ==
    /\ "subj_path_results" \in paths => "output_path" \in paths
    /\ "practice_output_filename" \in paths => "subj_path_results" \in paths
    /\ "test_output_filename" \in paths => "subj_path_results" \in paths

CheckInit ==
    /\ exists \in {paths \in SUBSET Paths : PossibleFileSystem(paths)}
    /\ check = NoCall
    /\ extract = NoCall
    /\ script = NoCall
    /\ phase = NoCall
    /\ RandomizeIdle
    /\ directory = {}
    /\ changes = 0
    /\ randomized_stimuli_pkl = NoFile
    /\ randomized_stimuli_csv = NoFile
    /\ rng = FreshRng
    /\ mt666 = <<>>
    /\ create = NoCall
    /\ load = NoCall
    /\ first_run = NoCall
    /\ frame = NoCall

notCheckVars ==
    <<frame, fileVars, rngVars, create, load, first_run, randomizeVars,
      extract, script, phase>>

\* the call, of the function of the given module
CheckEnter(module) ==
    [ pc     |-> "statement",
      module |-> module,
      at     |-> 1,            \* the statement the call is at
      entry  |-> exists ]      \* the file system at the call (ghost)

CheckCall ==
    /\ check.pc = "idle"
    /\ \E module \in {"path_and_randomization", "path_stimuli"} :
          check' = CheckEnter(module)
    /\ UNCHANGED <<exists, notCheckVars>>

\* if not os.path.exists(...): raise Exception(...)
CheckRequired ==
    /\ check.pc = "statement"
    /\ check.at <= Len(Statements)
    /\ Statements[check.at] \in Required
    /\ check' = IF Statements[check.at] \in exists
                THEN [check EXCEPT !.at = @ + 1]
                ELSE [check EXCEPT !.pc = "raised"]
    /\ UNCHANGED <<exists, notCheckVars>>

\* if not os.path.exists(...): os.mkdir(...), os.makedirs(...)
CheckMake ==
    /\ check.pc = "statement"
    /\ check.at <= Len(Statements)
    /\ Statements[check.at] \notin Required
    /\ exists' = exists \cup {Statements[check.at]}
    /\ check' = [check EXCEPT !.at = @ + 1]
    /\ UNCHANGED notCheckVars

\* the end: path_stimuli.py opens the two result files for writing and
\* returns their names, path_and_randomization.py returns
CheckReturn ==
    /\ check.pc = "statement"
    /\ check.at > Len(Statements)
    /\ exists' = IF check.module = "path_stimuli"
                 THEN exists \cup {"practice_output_filename", "test_output_filename"}
                 ELSE exists
    /\ check' = [check EXCEPT !.pc = "returned"]
    /\ UNCHANGED notCheckVars

CheckNext == CheckCall \/ CheckRequired \/ CheckMake \/ CheckReturn

SpecCheck == CheckInit /\ [][CheckNext]_vars

\* C12: a call made with one of the three directories missing raises, and
\* up to the raise the file system is as it was at the call.
C12_RaisesAndLeavesUnchanged ==
    /\ check.pc = "raised" => exists = check.entry
    /\ (check.pc # "idle" /\ ~(Required \subseteq check.entry)) =>
          /\ check.pc # "returned"
          /\ exists = check.entry

\* the third check raises, with none of the directories to be made there
C12_Witness ==
    /\ check.pc = "raised"
    /\ check.at = 3
    /\ exists \cap {"output_path", "record_path", "random_path", "subj_path_results"} = {}

-----------------------------------------------------------------------------
(* imitation_functions.py: conduct_experiment_phase.                       *)

\* "{:02d}".format(n)
Digit(d) == SubSeq("0123456789", d + 1, d + 1)

RECURSIVE Decimal(_)
Decimal(n) == IF n < 10 THEN Digit(n) ELSE Decimal(n \div 10) \o Digit(n % 10)

Format02d(n) == IF n < 10 THEN "0" \o Digit(n) ELSE Decimal(n)

\* a trial counter that stays where it is
SameTrialCounter(trial_counter) == trial_counter

\* trial_counter += 1
NextTrialCounter(trial_counter) == trial_counter + 1

\* the locals after line 150; results is the list of the module, which
\* keeps the trials of the phases before
ConductEnter(phase_stimuli, phase_name, results) ==
    [ pc            |-> "trials",
      phase_name    |-> phase_name,
      phase_stimuli |-> phase_stimuli,
      block         |-> 1,     \* the item of phase_stimuli.items() the loop is at
      position      |-> 1,     \* the stimulus of the list the loop is at
      trial_counter |-> 1,
      results       |-> results ]

\* present_trial and the trial data: the fields the sequence decides
TrialData(f, stimulus_file) ==
    [ trial     |-> Format02d(f.trial_counter),
      phase     |-> f.phase_name,
      stimulus  |-> stimulus_file,
      manip     |-> randomization_get_manip(stimulus_file).value,
      name_stim |-> randomization_get_name_stim(stimulus_file) ]

\* one turn of a loop over stimuli: the trial, its data appended, the
\* counter incremented
AfterTrial(f, stimulus_file) ==
    [f EXCEPT !.results = Append(@, TrialData(f, stimulus_file)),
              !.position = @ + 1,
              !.trial_counter = NextTrialCounter(@)]

notPhaseVars ==
    <<frame, fileVars, rngVars, create, load, first_run, randomizeVars,
      extract, exists, check>>

\* lines 177-214: a turn of the loop of the practice phase
PresentPracticeTrial ==
    /\ phase.pc = "trials"
    /\ phase.phase_name = "practice"
    /\ phase.position <= Len(phase.phase_stimuli)
    /\ phase' = AfterTrial(phase, phase.phase_stimuli[phase.position])
    /\ UNCHANGED <<script, notPhaseVars>>

\* lines 219-256: a turn of the inner loop of the test phase
PresentTestTrial ==
    /\ phase.pc = "trials"
    /\ phase.phase_name # "practice"
    /\ phase.block <= Len(phase.phase_stimuli)
    /\ phase.position <= Len(phase.phase_stimuli[phase.block].stimuli)
    /\ phase' = AfterTrial(phase, phase.phase_stimuli[phase.block].stimuli[phase.position])
    /\ UNCHANGED <<script, notPhaseVars>>

\* lines 258-260: the block is through (the pause screen, unless it was the
\* last one), the outer loop goes on
NextBlock ==
    /\ phase.pc = "trials"
    /\ phase.phase_name # "practice"
    /\ phase.block <= Len(phase.phase_stimuli)
    /\ phase.position > Len(phase.phase_stimuli[phase.block].stimuli)
    /\ phase' = [phase EXCEPT !.block = @ + 1, !.position = 1]
    /\ UNCHANGED <<script, notPhaseVars>>

PhaseThrough ==
    /\ phase.pc = "trials"
    /\ IF phase.phase_name = "practice"
       THEN phase.position > Len(phase.phase_stimuli)
       ELSE phase.block > Len(phase.phase_stimuli)

-----------------------------------------------------------------------------
(* imitation_experiment.py, from its first statement to its last.          *)

\* the script with the practice phase before the test sequence is made
StatementsPracticeFirst ==
    <<"check", "load_practice", "practice", "load_and_randomize", "test", "end">>

\* the statements of the script that matter here, in their order
ScriptStatements ==
    <<"check", "load_practice", "load_and_randomize", "practice", "test", "end">>

\* the statement after the one at pc
After(pc) ==
    ScriptStatements[(CHOOSE p \in 1..Len(ScriptStatements) : ScriptStatements[p] = pc) + 1]

\* the files of the practice directory
PracticeFiles == {"ueb__bra_1.wav"}

\* the three directories there or not, nothing made yet; stimulus files
\* only in directories that are there
ScriptInit ==
    /\ exists \in SUBSET Required
    /\ directory \in SUBSET ImitationFiles
    /\ "stim_path" \notin exists => directory = {}
    /\ \E practice_directory \in SUBSET PracticeFiles :
          /\ "practice_stim_path" \notin exists => practice_directory = {}
          /\ script = [ pc                      |-> ScriptStatements[1],
                        practice_directory      |-> practice_directory,
                        practice_files          |-> <<>>,
                        randomized_test_stimuli |-> <<>> ]
    /\ check = NoCall
    /\ phase = NoCall
    /\ extract = NoCall
    /\ RandomizeIdle
    /\ changes = 0
    /\ randomized_stimuli_pkl = NoFile
    /\ randomized_stimuli_csv = NoFile
    /\ rng = FreshRng
    /\ mt666 = <<>>
    /\ create = NoCall
    /\ load = NoCall
    /\ first_run = NoCall
    /\ frame = NoCall

notScriptVars ==
    <<frame, fileVars, rngVars, create, load, first_run, randomizeVars, extract>>

\* line 21: the call of check_and_create_config_paths
ScriptCheck ==
    /\ script.pc = "check"
    /\ check.pc = "idle"
    /\ check' = CheckEnter("path_and_randomization")
    /\ UNCHANGED <<script, exists, phase, notScriptVars>>

\* its return, or its exception, which ends the script
ScriptChecked ==
    /\ script.pc = "check"
    /\ check.pc \in {"returned", "raised"}
    /\ script' = [script EXCEPT
                    !.pc = IF check.pc = "returned" THEN After(script.pc) ELSE "aborted"]
    /\ UNCHANGED <<check, exists, phase, notScriptVars>>

\* lines 24-27: the window, the practice files
ScriptLoadPractice ==
    /\ script.pc = "load_practice"
    /\ \E practice_files \in Listings(script.practice_directory) :
          script' = [script EXCEPT !.practice_files = practice_files,
                                   !.pc = After(script.pc)]
    /\ UNCHANGED <<check, exists, phase, notScriptVars>>

\* line 30: the call of load_and_randomize
ScriptLoadAndRandomize ==
    /\ script.pc = "load_and_randomize"
    /\ LoadAndRandomizeCall

\* its return and the assignment, or its exception
ScriptRandomized ==
    /\ script.pc = "load_and_randomize"
    /\ randomize.pc \in {"returned", "index_error"}
    /\ script' = IF randomize.pc = "returned"
                 THEN [script EXCEPT
                         !.randomized_test_stimuli = randomize.segregated_stimuli,
                         !.pc = After(script.pc)]
                 ELSE [script EXCEPT !.pc = "aborted"]
    /\ UNCHANGED <<check, exists, phase, notScriptVars>>

\* lines 32-35 and 38-44: the message, the call of conduct_experiment_phase
ScriptConduct ==
    /\ script.pc \in {"practice", "test"}
    /\ phase.pc \in {"idle", "returned"}
    /\ phase' = ConductEnter(IF script.pc = "practice"
                             THEN script.practice_files
                             ELSE script.randomized_test_stimuli,
                             script.pc,
                             IF phase.pc = "idle" THEN <<>> ELSE phase.results)
    /\ UNCHANGED <<script, check, exists, notScriptVars>>

\* line 262 and the script's next statement
ScriptConducted ==
    /\ script.pc \in {"practice", "test"}
    /\ PhaseThrough
    /\ phase' = [phase EXCEPT !.pc = "returned"]
    /\ script' = [script EXCEPT !.pc = After(script.pc)]
    /\ UNCHANGED <<check, exists, notScriptVars>>

ScriptNext ==
    \/ ScriptCheck
    \/ CheckRequired
    \/ CheckMake
    \/ CheckReturn
    \/ ScriptChecked
    \/ ScriptLoadPractice
    \/ ScriptLoadAndRandomize
    \/ ShuffleCoordinations
    \/ ShuffleGroup
    \/ CombineAndSegregate
    \/ SaveRandomizedStimuli
    \/ ScriptRandomized
    \/ ScriptConduct
    \/ PresentPracticeTrial
    \/ PresentTestTrial
    \/ NextBlock
    \/ ScriptConducted

SpecScript == ScriptInit /\ [][ScriptNext]_vars

\* a trial has been presented
Presented == phase.pc # "idle" /\ Len(phase.results) > 0

\* the step on which the test sequence is there: randomize_stimuli returns
Computes == randomize.pc # "save" /\ randomize'.pc = "save"

RECURSIVE ParseDecimal(_)
ParseDecimal(digits) ==
    IF Len(digits) = 0 THEN 0
    ELSE 10 * ParseDecimal(SubSeq(digits, 1, Len(digits) - 1))
         + (CHOOSE d \in 0..9 : Digit(d) = SubSeq(digits, Len(digits), Len(digits)))

\* the trials of the test phase, as presented
TestTrials == SelectSeq(phase.results, LAMBDA t : t.phase = "test")

-----------------------------------------------------------------------------
(* More properties of rearrange, of its steps and of its passes.           *)

\* the step of a call on which it swaps
SwapStep == frame.pc = "for_j" /\ frame'.pc = "for_j" /\ frame'.swaps = frame.swaps + 1

\* the value of the attribute of the pass at position p (0-based) of the list
ValueAt(f, attribute, p) == get_attribute(attribute, f.rearranged[p + 1]).value

\* the counter after the comparison of position j with position i
CountAtJ(f, attribute) ==
    IF ValueAt(f, attribute, f.j) = ValueAt(f, attribute, f.i)
    THEN f.attribute_count + 1
    ELSE 1

\* the positions after j whose value differs from that at j
Candidates(f, attribute) ==
    {k \in (f.j + 1)..(Len(f.rearranged) - 1) :
        ValueAt(f, attribute, k) # ValueAt(f, attribute, f.j)}

Smallest(S) == CHOOSE k \in S : \A o \in S : k <= o

\* a returned list with a run over a limit
OverLimit(f) ==
    \E attribute \in AttributeNames :
        HasRun(attribute, f.rearranged, LimitOf(f, attribute) + 1)

\* C15: a call of rearrange in which a search found no candidate, and which
\* returns a list with a run longer than a limit, has let the caller know:
\* it has emitted a warning.
C15_DegradationObservable ==
    (frame.pc = "returned" /\ AllWellFormed(frame.stimuli)
        /\ frame.ever_failed /\ OverLimit(frame))
        => frame.warnings # <<>>

\* C18: a swap is made at the position j at which the counter of the pass
\* has gone over the limit, with the first position k after j whose value
\* of the pass's attribute differs from that at j; the two exchange their
\* items and every other position keeps its own.
C18_SwapsWithNearestDifferent ==
    [][SwapStep =>
        LET attribute == attributes[frame.attribute]
            j == frame.j
        IN  /\ CountAtJ(frame, attribute) > attribute_limit(frame)
            /\ Candidates(frame, attribute) # {}
            /\ LET k == Smallest(Candidates(frame, attribute))
               IN  frame'.rearranged =
                       [p \in 1..Len(frame.rearranged) |->
                           IF p = j + 1 THEN frame.rearranged[k + 1]
                           ELSE IF p = k + 1 THEN frame.rearranged[j + 1]
                           ELSE frame.rearranged[p]]
    ]_vars

\* after the one swap of a call: two positions not next to each other have
\* exchanged their items
C18_Witness ==
    /\ frame.pc \in {"for_i", "for_j", "returned"}
    /\ frame.swaps = 1
    /\ \E p, q \in 1..Len(frame.stimuli) :
          /\ q > p + 1
          /\ frame.stimuli[p] # frame.stimuli[q]
          /\ frame.rearranged = Swap(frame.stimuli, p - 1, q - 1)

\* C19: from the first search of a pass that finds no candidate to the end
\* of that pass the list stays as it was when the search failed.
C19_NoSwapAfterFailedSearch ==
    (frame.pc \in {"for_i", "for_j", "returned"} /\ frame.failed)
        => frame.rearranged = frame.at_fail

\* the attribute each pass is to look at, first to last
PassOrder == <<"condition", "name_stim", "manip">>

\* C20: a call goes through the attributes in the order condition,
\* name_stim, manip, one pass over all positions for each and none a second
\* time, and a swap of a pass is decided by that pass's attribute and limit
\* alone (the witness: the condition limit met at the end of the condition
\* pass, and broken in the list returned).
C20_OnePassPerAttribute ==
    [][frame.pc \in {"for_i", "for_j"} =>
        /\ frame'.attribute \in {frame.attribute, frame.attribute + 1}
        /\ frame'.attribute = frame.attribute + 1 => frame.i = Len(frame.rearranged)
        /\ frame'.pc = "returned" =>
              /\ frame.attribute = Len(PassOrder)
              /\ frame.i = Len(frame.rearranged)
        /\ SwapStep =>
              LET own == PassOrder[frame.attribute]
              IN  /\ ValueAt(frame, own, frame.j) = ValueAt(frame, own, frame.i)
                  /\ CountAtJ(frame, own) > LimitOf(frame, own)
                  /\ ValueAt(frame', own, frame.j) # ValueAt(frame, own, frame.j)
    ]_vars

\* a call that had no run of conditions over the limit at the end of its
\* first pass and returns a list that has one
C20_Witness ==
    /\ frame.pc = "returned"
    /\ AllWellFormed(frame.stimuli)
    /\ ~HasRun("condition", frame.pass_end[1], frame.condition_limit + 1)
    /\ HasRun("condition", frame.rearranged, frame.condition_limit + 1)

-----------------------------------------------------------------------------
(* load_or_generate_stimuli: the stored ordering over the calls.           *)

\* C16: once randomized_stimuli.pkl is written no step changes it, and none
\* but the writing call's own CSV step changes randomized_stimuli.csv; a
\* call made with the pickle there generates nothing and takes up the
\* stored ordering, which is what it returns or fails its check on.
C16_StoredOrderingImmutable ==
    /\ [][randomized_stimuli_pkl.exists =>
            randomized_stimuli_pkl' = randomized_stimuli_pkl]_vars
    /\ [][(randomized_stimuli_pkl.exists /\ load.pc # "write_csv") =>
            randomized_stimuli_csv' = randomized_stimuli_csv]_vars
    /\ [][(randomized_stimuli_pkl.exists /\ load.pc = "idle" /\ load'.pc # "idle") =>
            /\ create' = create
            /\ load'.pc = "assert"
            /\ load'.randomized_stimuli = randomized_stimuli_pkl.content]_vars
    /\ [](create.pc # "idle" => ~randomized_stimuli_pkl.exists)
    /\ [](load.pc \in {"returned", "assertion_error"} =>
            load.randomized_stimuli = randomized_stimuli_pkl.content)

\* a later call, the directory changed since the ordering of two files was
\* stored: it fails its check, the two files as they were written
C16_Witness ==
    /\ load.pc = "assertion_error"
    /\ ~load.persisted
    /\ changes >= 1
    /\ Len(randomized_stimuli_pkl.content) = 2
    /\ randomized_stimuli_csv.exists
    /\ Len(randomized_stimuli_csv.content) = 2

-----------------------------------------------------------------------------
(* path_stimuli.py: group_stimuli inside create_randomized_stimuli, on     *)
(* directories whose names share a first part or their first five          *)
(* characters.                                                             *)

GroupFiles == { "A_x_0_m1.wav", "A_x_0_m2.wav",     \* same first part, same first five
                "A_y_0_m1.wav",                       \* same first part, other first five
                "B_x_0_m1.wav",                       \* another first part
                "speakA_x_0_m1.wav",                  \* two first parts that
                "speakB_x_0_m1.wav" }                 \* share their first five

GroupInit ==
    /\ RandomizeIdle
    /\ RestIdle
    /\ directory \in {dir \in SUBSET GroupFiles : Cardinality(dir) <= MaxLen}
    /\ changes = 0
    /\ create = NoCall
    /\ rng = FreshRng
    /\ mt666 = <<>>
    /\ first_run = NoCall
    /\ frame = NoCall
    /\ load = NoCall
    /\ randomized_stimuli_pkl = NoFile
    /\ randomized_stimuli_csv = NoFile

GroupNext ==
    \/ CreateInvoke
    \/ CreateCall
    \/ CreateGroup
    \/ CreateReturn

SpecGroup == GroupInit /\ [][GroupNext]_vars

\* the groups of the call that hold the filename
GroupsHolding(groups, filename) ==
    {q \in 1..Len(groups) :
        \E p \in 1..Len(groups[q].stimuli) : groups[q].stimuli[p] = filename}

Grouped == create.pc \in {"loop", "returned", "raised"}

\* C21: the groups of group_stimuli are the partition of the listing by
\* get_name_stim: every filename of the listing is in exactly one group, no
\* group is empty, and two filenames are in the same group exactly when
\* their first non-empty underscore part is the same.
C21_PartitionByNameStim ==
    Grouped =>
        LET stimuli == {create.stimuli[p] : p \in 1..Len(create.stimuli)}
        IN  /\ \A f \in stimuli : Cardinality(GroupsHolding(create.groups, f)) = 1
            /\ \A q \in 1..Len(create.groups) : create.groups[q].stimuli # <<>>
            /\ \A f, g \in stimuli :
                  (GroupsHolding(create.groups, f) = GroupsHolding(create.groups, g))
                      <=> (get_name_stim(f).value = get_name_stim(g).value)

-----------------------------------------------------------------------------
(* The mapping randomize_stimuli returns.                                  *)

\* the filenames of a list of stimulus data
Filenames(stimuli_data_list) ==
    [p \in 1..Len(stimuli_data_list) |-> stimuli_data_list[p].filename]

Elements(s) == {s[p] : p \in 1..Len(s)}

\* C22: the mapping returned by randomize_stimuli has the five prefixes as
\* its keys, in the order name_coordinations was shuffled to in this call;
\* each block holds exactly the input filenames that start with its key, in
\* the order the shuffle of its group left them in, and no filename is in
\* two blocks.
C22_BlocksByPrefix ==
    randomize.pc \in {"save", "returned"} =>
        LET segregated_stimuli == randomize.segregated_stimuli
            groups == randomize.coordination_groups
        IN  /\ [q \in 1..Len(segregated_stimuli) |-> segregated_stimuli[q].name_coord]
                  = name_coordinations
            /\ Elements(name_coordinations) = Elements(NameCoordinations)
            /\ Len(segregated_stimuli) = Len(NameCoordinations)
            /\ \A q \in 1..Len(segregated_stimuli) :
                  LET block == segregated_stimuli[q]
                  IN  /\ Elements(block.stimuli) =
                            {f \in Elements(randomize.stimuli_files) :
                                StartsWith(f, block.name_coord)}
                      /\ Cardinality(Elements(block.stimuli)) = Len(block.stimuli)
                      /\ block.stimuli =
                            Filenames(groups[GroupAt(groups, block.name_coord)].stimuli)
            /\ \A q, o \in 1..Len(segregated_stimuli) :
                  q # o => Elements(segregated_stimuli[q].stimuli)
                              \cap Elements(segregated_stimuli[o].stimuli) = {}

\* a returned mapping whose keys are not in the written order, with a block
\* of two in the opposite of their order in the input, another block that
\* is not empty, and an input filename that starts with none of the keys
C22_Witness ==
    /\ randomize.pc = "returned"
    /\ name_coordinations # NameCoordinations
    /\ \E q, o \in 1..Len(randomize.segregated_stimuli) :
          /\ q # o
          /\ randomize.segregated_stimuli[o].stimuli # <<>>
          /\ Len(randomize.segregated_stimuli[q].stimuli) = 2
          /\ \E a, b \in 1..Len(randomize.stimuli_files) :
                /\ a < b
                /\ randomize.segregated_stimuli[q].stimuli
                      = <<randomize.stimuli_files[b], randomize.stimuli_files[a]>>
    /\ \E p \in 1..Len(randomize.stimuli_files) :
          FirstCoordination(randomize.stimuli_files[p], NameCoordinations) = 0

-----------------------------------------------------------------------------
(* rearrange and the positions up to its anchor.                           *)

\* C23: no step taken while the outer loop of a pass is at i changes a
\* position at or before i, and a call on a list that is not empty returns
\* a list whose first item is the first item it was given.
C23_AnchorUntouched ==
    /\ [][RearrangeRunning(frame) =>
            \A p \in 1..Len(frame.rearranged) :
                p <= frame.i + 1 => frame'.rearranged[p] = frame.rearranged[p]]_vars
    /\ []((frame.pc = "returned" /\ frame.stimuli # <<>>)
            => frame.rearranged[1] = frame.stimuli[1])

\* in the first pass, past its first anchor, after a swap: the list differs
\* from the input, though not at or before the anchor
C23_Witness ==
    /\ frame.pc = "for_j"
    /\ frame.pass_end = <<>>
    /\ frame.i >= 1
    /\ frame.swaps >= 1
    /\ frame.rearranged # frame.stimuli
    /\ \A p \in 1..(frame.i + 1) : frame.rearranged[p] = frame.stimuli[p]

-----------------------------------------------------------------------------
(* rearrange on a list that is within the limits already.                  *)

\* well-formed ids, no run longer than its limit for any attribute
ValidInput(f) ==
    /\ AllWellFormed(f.stimuli)
    /\ \A attribute \in AttributeNames :
          ~HasRun(attribute, f.stimuli, LimitOf(f, attribute) + 1)

\* C24: a call of rearrange on a list that has no run longer than the limit
\* for any of the three attributes makes no swap, and returns a list equal
\* to the one it was given.
C24_IdentityOnValid ==
    (frame.pc = "returned" /\ ValidInput(frame))
        => /\ frame.swaps = 0
           /\ frame.rearranged = frame.stimuli

-----------------------------------------------------------------------------
(* load_and_randomize called again and again in one process: the list      *)
(* name_coordinations of the module stays as the call before left it.      *)

\* the stimulus directory: a file of one coordination, a file of another
RecallFiles == { "gabi__leni__bra_1.wav", "nelli_moni__bra_1.wav" }

RecallInit ==
    /\ directory \in SUBSET RecallFiles
    /\ changes = 0
    /\ RandomizeIdle
    /\ RestIdle
    /\ rng = FreshRng
    /\ mt666 = <<>>
    /\ randomized_stimuli_pkl = NoFile
    /\ randomized_stimuli_csv = NoFile
    /\ create = NoCall
    /\ load = NoCall
    /\ first_run = NoCall
    /\ frame = NoCall

\* the call is over, its frame is gone; the list and the file stay
RandomizeExit ==
    /\ randomize.pc \in {"returned", "index_error"}
    /\ randomize' = NoCall
    /\ UNCHANGED <<name_coordinations, randomized_imitation_stimuli_csv,
                   rngVars, notRandomizeVars>>

RecallNext ==
    \/ LoadAndRandomizeCall
    \/ ShuffleCoordinations
    \/ ShuffleGroup
    \/ CombineAndSegregate
    \/ SaveRandomizedStimuli
    \/ RandomizeExit

SpecRecall == RecallInit /\ [][RecallNext]_vars

\* the keys of coordination_groups, in insertion order
GroupKeys(coordination_groups) ==
    [q \in 1..Len(coordination_groups) |-> coordination_groups[q].coordination]

\* C25: whatever calls have been made, name_coordinations holds the five
\* prefixes of lines 50-56, each of them once, and the groups of a call are
\* keyed by these five.
C25_SameFivePrefixes ==
    /\ Len(name_coordinations) = Len(NameCoordinations)
    /\ \A q \in 1..Len(NameCoordinations) :
          Count(NameCoordinations[q], name_coordinations) = 1
    /\ randomize.pc \in {"shuffle_coordinations", "shuffle_groups", "save", "returned"}
          => /\ Len(randomize.coordination_groups) = Len(NameCoordinations)
             /\ Elements(GroupKeys(randomize.coordination_groups))
                   = Elements(NameCoordinations)

\* a call that found the list in an order a call before it had left, and
\* has shuffled it to yet another, both of its files in their groups
C25_Witness ==
    /\ randomize.pc = "returned"
    /\ randomized_imitation_stimuli_csv.exists
    /\ GroupKeys(randomize.coordination_groups) # NameCoordinations
    /\ name_coordinations # GroupKeys(randomize.coordination_groups)
    /\ name_coordinations # NameCoordinations
    /\ Len(Blocks(randomize.segregated_stimuli, 1)) = 2

=============================================================================
